---- MODULE Spec2Model ----
(***************************************************************************)
(* Model of chirp/data/pipeline.py (multi_hot, mix_audio, _trim,           *)
(* _normalize_audio, process_audio, get_dataset) and of                    *)
(* chirp/data/filter_scrub_utils.py (not_in, scrub).                       *)
(*                                                                         *)
(* Tensors are sequences (rank 1), sequences of sequences (rank 2), ...    *)
(* Audio samples are exact rationals <<numerator, denominator>> in lowest  *)
(* terms with a positive denominator; the sums, halvings and products the  *)
(* code performs on the small sample values used here are exact in         *)
(* float32 as well.                                                        *)
(***************************************************************************)
EXTENDS Integers, Sequences, FiniteSets, TLC

VARIABLES
    \* multi_hot
    mraw, mout,
    \* _mix_audio applied to one window
    rwindow, rout,
    \* mix_audio over a stream (group_by_window)
    mixin_prob, inputs, groups, out, eof,
    \* process_audio
    pexample, window_size, trim_out, gain_out, pout,
    \* not_in / scrub
    feature_dict, fd_orig, skey, svalues, res1, res2, nres,
    \* get_dataset
    split, batch_size, data_config, ds, pc, recs

vars == <<mraw, mout, rwindow, rout, mixin_prob, inputs, groups, out, eof,
          pexample, window_size, trim_out, gain_out, pout,
          feature_dict, fd_orig, skey, svalues, res1, res2, nres,
          split, batch_size, data_config, ds, pc, recs>>

mhVars == <<mraw, mout>>
redVars == <<rwindow, rout>>
mixVars == <<mixin_prob, inputs, groups, out, eof>>
paVars == <<pexample, window_size, trim_out, gain_out, pout>>
fsVars == <<feature_dict, fd_orig, skey, svalues, res1, res2, nres>>
gdVars == <<split, batch_size, data_config, ds, pc, recs>>

\* values of variables a specification does not use, of a record not yet
\* computed, and of a tuple not yet computed
\* the variables each specification leaves alone
notMh == <<redVars, mixVars, paVars, fsVars, gdVars>>
notRed == <<mhVars, mixVars, paVars, fsVars, gdVars>>
notMix == <<mhVars, redVars, paVars, fsVars, gdVars>>
notPa == <<mhVars, redVars, mixVars, fsVars, gdVars>>
notFs == <<mhVars, redVars, mixVars, paVars, gdVars>>
notGd == <<mhVars, redVars, mixVars, paVars, fsVars>>

None == "none"
NoRec == [none |-> TRUE]
NoTuple == <<>>

----------------------------------------------------------------------------
(* Bounds *)

\* samples per clip in the multi_hot and mixer models
ClipLen == 2
\* longest class-index sequence of a raw record
MaxSeqLen == 2
\* longest clip handed to process_audio
MaxLen == 3
\* largest window_size (in samples) handed to _trim
MaxWindow == 3
\* number of records the upstream stream may deliver to mix_audio
StreamLen == 4
\* longest list / values argument handed to not_in and scrub
MaxList == 2
\* number of records followed through the dataset returned by get_dataset
NumRecs == 2

----------------------------------------------------------------------------
(* Exact arithmetic on samples *)

Abs(n) == IF n < 0 THEN -n ELSE n

RECURSIVE GCD(_, _)
GCD(a, b) == IF b = 0 THEN a ELSE GCD(b, a % b)

\* n/d in lowest terms, denominator positive
Rat(n, d) ==
    LET s == IF d < 0 THEN -1 ELSE 1
        g == GCD(Abs(n), Abs(d))
    IN  IF n = 0 THEN <<0, 1>> ELSE <<(s * n) \div g, (s * d) \div g>>

R(n) == <<n, 1>>
RAdd(x, y) == Rat(x[1] * y[2] + y[1] * x[2], x[2] * y[2])
RMul(x, y) == Rat(x[1] * y[1], x[2] * y[2])
RDiv(x, y) == Rat(x[1] * y[2], x[2] * y[1])
RAbs(x) == <<Abs(x[1]), x[2]>>
RLess(x, y) == x[1] * y[2] < y[1] * x[2]
RMax(x, y) == IF RLess(x, y) THEN y ELSE x

Max(a, b) == IF a < b THEN b ELSE a
Min(a, b) == IF a < b THEN a ELSE b

\* all sequences over S of length exactly n / at most n
SeqsOfLen(S, n) == [1..n -> S]
SeqsUpTo(S, n) == UNION {SeqsOfLen(S, k) : k \in 0..n}

\* the sample values raw clips are made of
Samples == {R(-1), R(2)}

----------------------------------------------------------------------------
(* multi_hot (pipeline.py 125-153) *)

\* info.features: the Sequence(ClassLabel) features and their num_classes;
\* audio, filename and label_str are features of other kinds
ClassFeatures == {"label", "genus", "family", "order", "bg_labels"}
num_classes ==
    [label |-> 2, genus |-> 1, family |-> 1, order |-> 1, bg_labels |-> 1]

\* tf.one_hot(indices, depth): one row per index, classes 0..depth-1
one_hot(indices, depth) ==
    [i \in 1..Len(indices) |->
        [c \in 1..depth |-> IF indices[i] = c - 1 THEN 1 ELSE 0]]

RECURSIVE SumCol(_, _, _)
SumCol(rows, c, i) ==
    IF i = 0 THEN 0 ELSE rows[i][c] + SumCol(rows, c, i - 1)

\* tf.reduce_sum(rows, axis=0) of a [n, depth] tensor (n may be 0)
reduce_sum(rows, depth) == [c \in 1..depth |-> SumCol(rows, c, Len(rows))]

\* tf.clip_by_value(v, lo, hi)
clip_by_value(v, lo, hi) == [c \in 1..Len(v) |-> Min(Max(v[c], lo), hi)]

multi_hot_unclipped(example) ==
    [f \in (DOMAIN example \ {"filename", "label_str"}) \cup {"source_audio"} |->
        IF f = "source_audio" THEN <<example.audio>>
        ELSE IF f \in ClassFeatures
             THEN reduce_sum(one_hot(example[f], num_classes[f]), num_classes[f])
             ELSE example[f]]

multi_hot(example) ==
    [f \in (DOMAIN example \ {"filename", "label_str"}) \cup {"source_audio"} |->
        IF f = "source_audio" THEN <<example.audio>>
        ELSE IF f \in ClassFeatures
             THEN clip_by_value(
                      reduce_sum(one_hot(example[f], num_classes[f]),
                                 num_classes[f]), 0, 1)
             ELSE example[f]]

ClassSeqs(f) == SeqsUpTo(0..(num_classes[f] - 1), MaxSeqLen)

\* raw records as the dataset reader delivers them
RawExamples ==
    [filename : {"a.wav"}, label_str : {"x"},
     audio : SeqsOfLen(Samples, ClipLen),
     label : ClassSeqs("label"), genus : ClassSeqs("genus"),
     family : ClassSeqs("family"), order : ClassSeqs("order"),
     bg_labels : ClassSeqs("bg_labels")]

MultiHot ==
    /\ mout = NoRec
    /\ mout' = multi_hot(mraw)
    /\ UNCHANGED <<mraw, notMh>>

----------------------------------------------------------------------------
(* _mix_audio (pipeline.py 78-94) *)

MixKeys == <<"label", "genus", "family", "order", "bg_labels">>

\* dataset.batch(n): stacks every field of the window's records on a new
\* leading axis
Batch(records) ==
    [f \in DOMAIN records[1] |-> [i \in 1..Len(records) |-> records[i][f]]]

\* tf.zeros_like of a rank-3 tensor
zeros_like(t) ==
    [i \in 1..Len(t) |-> [j \in 1..Len(t[i]) |->
        [k \in 1..Len(t[i][j]) |-> R(0)]]]

RECURSIVE MaxCol(_, _, _)
MaxCol(rows, c, i) ==
    IF i = 1 THEN rows[1][c] ELSE Max(rows[i][c], MaxCol(rows, c, i - 1))

RECURSIVE MinCol(_, _, _)
MinCol(rows, c, i) ==
    IF i = 1 THEN rows[1][c] ELSE Min(rows[i][c], MinCol(rows, c, i - 1))

reduce_min(rows) == [c \in 1..Len(rows[1]) |-> MinCol(rows, c, Len(rows))]

\* tf.reduce_max(rows, axis=0)
reduce_max(rows) == [c \in 1..Len(rows[1]) |-> MaxCol(rows, c, Len(rows))]

RECURSIVE RSumCol(_, _, _)
RSumCol(rows, c, i) ==
    IF i = 0 THEN R(0) ELSE RAdd(rows[i][c], RSumCol(rows, c, i - 1))

\* tf.reduce_mean(rows, axis=0)
reduce_mean(rows) ==
    [c \in 1..Len(rows[1]) |->
        RDiv(RSumCol(rows, c, Len(rows)), R(Len(rows)))]

SourceDivisorTwo(examples) == 2

\* the divisor of line 92: examples['audio'].shape[0], the batch size
SourceDivisor(examples) == Len(examples.audio)

_mix_audio(examples) ==
    LET sa1 == IF Len(examples.source_audio) = 1
               THEN examples.source_audio \o zeros_like(examples.source_audio)
               ELSE examples.source_audio
        \* examples['source_audio'][:, 0]
        sa2 == [i \in 1..Len(sa1) |-> sa1[i][1]]
        sa3 == [i \in 1..Len(sa2) |->
                   [t \in 1..Len(sa2[i]) |->
                       RDiv(sa2[i][t], R(SourceDivisor(examples)))]]
    IN  [f \in DOMAIN examples |->
            IF f = "source_audio" THEN sa3
            ELSE IF f = "audio" THEN reduce_mean(examples.audio)
            ELSE IF \E i \in 1..Len(MixKeys) : MixKeys[i] = f
                 THEN reduce_max(examples[f])
                 ELSE examples[f]]

\* single-source records as multi_hot produces them
MixRecords == {multi_hot(e) : e \in RawExamples}

MixWindow ==
    /\ rout = NoRec
    /\ rout' = _mix_audio(Batch(rwindow))
    /\ UNCHANGED <<rwindow, notRed>>

\* windows as reduce_func hands them to _mix_audio: batch(1) or batch(2)
Windows == SeqsOfLen(MixRecords, 1) \cup SeqsOfLen(MixRecords, 2)

----------------------------------------------------------------------------
(* mix_audio: key_func, reduce_func, group_by_window (pipeline.py 54-96) *)

\* window_size argument of group_by_window
GroupWindowSize == 2

\* the values of tf.random.uniform([]) and of mixin_prob, in hundredths
Uniforms == {0, 25, 50, 75}
MixinProbs == {0, 50, 100}

\* tf.cast(tf.less(u, mixin_prob), tf.int64)
key_func(u, prob) == IF u < prob THEN 1 ELSE 0

BatchesKeepRemainder(window, n) ==
    [b \in 1..((Len(window) + n - 1) \div n) |->
        SubSeq(window, (b - 1) * n + 1, Min(b * n, Len(window)))]

\* dataset.batch(n, drop_remainder=True) of a window: its full batches
Batches(window, n) ==
    [b \in 1..(Len(window) \div n) |->
        SubSeq(window, (b - 1) * n + 1, b * n)]

\* .map(_mix_audio) of one batch of stream entries; from is the positions in
\* the input stream of the records the output is built from
MixBatch(batch) ==
    [ex |-> _mix_audio(Batch([i \in 1..Len(batch) |-> batch[i].ex])),
     from |-> [i \in 1..Len(batch) |-> batch[i].idx]]

reduce_func_swapped(key, window) ==
    LET bs == IF key = 0 THEN Batches(window, 2) ELSE Batches(window, 1)
    IN  [b \in 1..Len(bs) |-> MixBatch(bs[b])]

\* reduce_func: the outputs of one window of the group with the given key
reduce_func(key, window) ==
    LET bs == IF key = 0 THEN Batches(window, 1) ELSE Batches(window, 2)
    IN  [b \in 1..Len(bs) |-> MixBatch(bs[b])]

\* the records of the upstream (shuffled, multi_hot encoded) stream
StreamRecords ==
    {multi_hot(e) : e \in {r \in RawExamples :
        /\ r.audio = [t \in 1..ClipLen |-> R(2)]
        /\ Len(r.label) = 1
        /\ r.genus = <<>> /\ r.family = <<>> /\ r.order = <<>>
        /\ r.bg_labels = <<>>}}

\* group_by_window takes one record with the key it drew: the record joins
\* the key's window, which is reduced once it holds GroupWindowSize records
gbw_step(grps, entry, key) ==
    LET window == Append(grps[key], entry)
    IN  IF Len(window) = GroupWindowSize
        THEN [groups |-> [grps EXCEPT ![key] = <<>>],
              emitted |-> reduce_func(key, window)]
        ELSE [groups |-> [grps EXCEPT ![key] = window], emitted |-> <<>>]

\* group_by_window at the end of its input: the partial windows are reduced,
\* the window of key first before the other
gbw_end(grps, first) ==
    reduce_func(first, grps[first]) \o reduce_func(1 - first, grps[1 - first])

NoGroups == [k \in 0..1 |-> <<>>]

\* group_by_window reads one record of the upstream stream
Pull ==
    /\ ~eof
    /\ Len(inputs) < StreamLen
    /\ \E rec \in StreamRecords, u \in Uniforms :
        LET key == key_func(u, mixin_prob)
            step == gbw_step(groups, [ex |-> rec, idx |-> Len(inputs) + 1], key)
        IN  /\ inputs' = Append(inputs, [ex |-> rec, key |-> key])
            /\ out' = out \o step.emitted
            /\ groups' = step.groups
    /\ UNCHANGED <<mixin_prob, eof, notMix>>

\* the upstream stream ends
EndOfInput ==
    /\ ~eof
    /\ eof' = TRUE
    /\ \E first \in 0..1 : out' = out \o gbw_end(groups, first)
    /\ groups' = NoGroups
    /\ UNCHANGED <<mixin_prob, inputs, notMix>>

\* mix_audio applied to a whole finite stream, record i drawing us[i]
RECURSIVE MixRun(_, _, _, _, _, _)
MixRun(records, us, prob, first, i, grps) ==
    IF i > Len(records) THEN gbw_end(grps, first)
    ELSE LET step == gbw_step(grps, [ex |-> records[i], idx |-> i],
                              key_func(us[i], prob))
         IN  step.emitted \o MixRun(records, us, prob, first, i + 1, step.groups)

mix_audio(records, us, prob, first) ==
    LET outs == MixRun(records, us, prob, first, 1, NoGroups)
    IN  [o \in 1..Len(outs) |-> outs[o].ex]

----------------------------------------------------------------------------
(* _trim, _normalize_audio, process_audio (pipeline.py 28-51, 99-122) *)

\* info.features['audio'].sample_rate, in samples per second
sample_rate == 1

\* data_config: min_gain and max_gain
min_gain == Rat(1, 4)
max_gain == Rat(3, 4)

\* python / tf slice a[start:end] with 0-based start, end clamped to the length
Slice(a, start, end) ==
    LET hi == Min(end, Len(a))
    IN  IF start >= hi THEN <<>> ELSE [k \in 1..(hi - start) |-> a[start + k]]

\* tf.pad(a, [[0, pad_length]])
pad(a, pad_length) == a \o [k \in 1..pad_length |-> R(0)]

StartChoicesInclusive(L, ws) == 0..Max(L - ws, 1)

\* the values tf.random.uniform(minval=0, maxval=max_start_index) can return
StartChoices(L, ws) == 0..(Max(L - ws, 1) - 1)

\* _trim, with the random start_index it drew
_trim(audio, ws, start_index) ==
    LET end_index == start_index + ws
        trimmed == Slice(audio, start_index, start_index + ws)
        pad_length == ws - Len(trimmed)
    IN  <<pad(trimmed, pad_length), start_index, end_index>>

RECURSIVE MaxAbs(_, _)
MaxAbs(audio, i) ==
    IF i = 1 THEN RAbs(audio[1])
    ELSE RMax(RAbs(audio[i]), MaxAbs(audio, i - 1))

_normalize_audio(audio, target_gain) ==
    LET max_gain_ == MaxAbs(audio, Len(audio))
        gain_scalar == RDiv(target_gain, RAdd(max_gain_, Rat(1, 100)))
    IN  <<[t \in 1..Len(audio) |-> RMul(audio[t], gain_scalar)], gain_scalar>>

\* the values tf.random.uniform([], minval=min_gain, maxval=max_gain) returns
GainDraws ==
    {g \in {Rat(k, 4) : k \in 0..4} : ~RLess(g, min_gain) /\ RLess(g, max_gain)}

process_audio(example, window_size_s, start_index, target_gain) ==
    LET t == _trim(example.audio, window_size_s * sample_rate, start_index)
        n == _normalize_audio(t[1], target_gain)
        src == example.source_audio
    IN  [f \in DOMAIN example |->
            IF f = "audio" THEN n[1]
            ELSE IF f = "source_audio"
                 THEN [i \in 1..Len(src) |->
                          LET row == Slice(src[i], t[2], t[3])
                          IN  [k \in 1..Len(row) |-> RMul(row[k], n[2])]]
                 ELSE example[f]]

\* a raw record with the given clip
RawWithAudio(a) ==
    [filename |-> "a.wav", label_str |-> "x", audio |-> a, label |-> <<0>>,
     genus |-> <<0>>, family |-> <<0>>, order |-> <<0>>, bg_labels |-> <<>>]

\* the records get_dataset hands to process_audio: multi_hot records, mixed
\* or (see get_dataset) not
ProcInputs ==
    UNION {
        LET recs_ == {multi_hot(RawWithAudio(a)) : a \in SeqsOfLen(Samples, L)}
        IN  recs_ \cup {_mix_audio(Batch(w)) :
                          w \in SeqsOfLen(recs_, 1) \cup SeqsOfLen(recs_, 2)}
        : L \in 0..MaxLen}

ProcessAudio ==
    /\ pout = NoRec
    /\ \E start_index \in StartChoices(Len(pexample.audio),
                                       window_size * sample_rate),
          target_gain \in GainDraws :
        /\ trim_out' = _trim(pexample.audio, window_size * sample_rate,
                             start_index)
        /\ gain_out' = _normalize_audio(trim_out'[1], target_gain)[2]
        /\ pout' = process_audio(pexample, window_size, start_index,
                                 target_gain)
    /\ UNCHANGED <<pexample, window_size, notPa>>

----------------------------------------------------------------------------
(* not_in, scrub (filter_scrub_utils.py 21-81) *)

\* Python values: scalars carry their type and their value, written as its
\* literal; a list or ndarray carries its items.  bool and other subclasses are not among the values used, so
\* isinstance(val, t) is type(val) = t.
PyScalars ==
    {[ty |-> "int", v |-> "1"], [ty |-> "int", v |-> "2"], [ty |-> "str", v |-> "a"]}
NpScalars == {[ty |-> "np.int64", v |-> "1"], [ty |-> "np.int64", v |-> "2"]}

PyList(items) == [ty |-> "list", items |-> items]
NdArray(items) == [ty |-> "ndarray", items |-> items]

type(x) == x.ty
isinstance(val, t) == type(val) = t
IsNumber(x) == type(x) \in {"int", "np.int64"}

\* x == y on scalars
PyEq(x, y) ==
    IF IsNumber(x) /\ IsNumber(y) THEN x.v = y.v
    ELSE IF type(x) = "str" /\ type(y) = "str" THEN x.v = y.v
    ELSE FALSE

\* x in values
PyIn(x, values) == \E i \in 1..Len(values) : PyEq(x, values[i])

Raise(exc) == [kind |-> "raise", exc |-> exc]
Return(value) == [kind |-> "return", value |-> value]

\* the first index whose value fails the isinstance check, or 0
FirstMismatch(values, t) ==
    IF \E i \in 1..Len(values) : ~isinstance(values[i], t)
    THEN CHOOSE i \in 1..Len(values) :
            /\ ~isinstance(values[i], t)
            /\ \A j \in 1..(i - 1) : isinstance(values[j], t)
    ELSE 0

not_in(fd, key, values) ==
    IF key \notin DOMAIN fd THEN Raise("ValueError")
    ELSE IF FirstMismatch(values, type(fd[key])) # 0 THEN Raise("TypeError")
    ELSE Return(~PyIn(fd[key], values))

RECURSIVE ScrubbedFirstOnly(_, _)
ScrubbedFirstOnly(items, values) ==
    IF items = <<>> THEN <<>>
    ELSE IF PyIn(Head(items), values) THEN Tail(items)
    ELSE <<Head(items)>> \o ScrubbedFirstOnly(Tail(items), values)

\* [x for x in items if x not in values]
RECURSIVE Scrubbed(_, _)
Scrubbed(items, values) ==
    IF items = <<>> THEN <<>>
    ELSE (IF PyIn(Head(items), values) THEN <<>> ELSE <<Head(items)>>)
            \o Scrubbed(Tail(items), values)

scrub_KeyError(fd, key, values) ==
    IF key \notin DOMAIN fd THEN Raise("KeyError")
    ELSE IF type(fd[key]) \notin {"list", "ndarray"} THEN Raise("ValueError")
    ELSE IF Len(values) = 0 \/ Len(fd[key].items) = 0 THEN Return(fd)
    ELSE IF FirstMismatch(values, type(fd[key].items[1])) # 0
         THEN Raise("TypeError")
    ELSE Return([fd EXCEPT ![key] = PyList(Scrubbed(fd[key].items, values))])

scrub(fd, key, values) ==
    IF key \notin DOMAIN fd THEN Raise("ValueError")
    ELSE IF type(fd[key]) \notin {"list", "ndarray"} THEN Raise("ValueError")
    ELSE IF Len(values) = 0 \/ Len(fd[key].items) = 0 THEN Return(fd)
    ELSE IF FirstMismatch(values, type(fd[key].items[1])) # 0
         THEN Raise("TypeError")
    ELSE Return([fd EXCEPT ![key] = PyList(Scrubbed(fd[key].items, values))])

\* the values a field of a record may hold
FieldValues ==
    PyScalars \cup {PyList(l) : l \in SeqsUpTo(PyScalars, MaxList)}
              \cup {NdArray(l) : l \in SeqsUpTo(NpScalars, MaxList)}

\* feature dictionaries: a field "bg_species" and a field "filename"
FeatureDicts ==
    [bg_species : FieldValues, filename : {[ty |-> "str", v |-> "a"]}]

ValueLists == SeqsUpTo(PyScalars \cup NpScalars, MaxList)

\* not_in(feature_dict, skey, svalues); it assigns nothing in feature_dict
NotIn ==
    /\ nres = NoRec
    /\ nres' = not_in(feature_dict, skey, svalues)
    /\ UNCHANGED <<feature_dict, fd_orig, skey, svalues, res1, res2, notFs>>

\* scrub(feature_dict, skey, svalues); it assigns only in its copy
ScrubOnce ==
    /\ res1 = NoRec
    /\ res1' = scrub(feature_dict, skey, svalues)
    /\ UNCHANGED <<feature_dict, fd_orig, skey, svalues, res2, nres, notFs>>

\* scrub applied to the record the first scrub returned
ScrubAgain ==
    /\ res1 # NoRec /\ res1.kind = "return"
    /\ res2 = NoRec
    /\ res2' = scrub(res1.value, skey, svalues)
    /\ UNCHANGED <<feature_dict, fd_orig, skey, svalues, res1, nres, notFs>>

----------------------------------------------------------------------------
(* get_dataset (pipeline.py 156-208) *)

\* jax.device_count()
device_count == 1

\* the splits get_dataset is called with, and the test 'train' in split
Splits == {"train", "train[:80%]", "test"}
IsTrain(s) == s \in {"train", "train[:80%]"}

\* the dataset get_dataset returns, as the chain of transformations applied
\* to builder.as_dataset(split)
get_dataset(s, bs, config) ==
    LET mixin_prob_ == config.mixin_prob
        per_device_batch_size == bs \div device_count
        \* lines 174-185: the chain built first, which line 192 discards
        ds1 == <<[op |-> "multi_hot"]>>
                 \o (IF IsTrain(s)
                     THEN <<[op |-> "shuffle", n |-> bs * 10],
                            [op |-> "mix_audio", prob |-> mixin_prob_]>>
                     ELSE <<[op |-> "mix_audio", prob |-> 0]>>)
                 \o <<[op |-> "batch", n |-> per_device_batch_size]>>
        \* lines 192-207: the chain returned
        ds2 == <<[op |-> "multi_hot"]>>
                 \o (IF IsTrain(s)
                     THEN <<[op |-> "shuffle", n |-> bs * 10]>>
                            \o (IF mixin_prob_ > 0
                                THEN <<[op |-> "mix_audio",
                                        prob |-> mixin_prob_]>>
                                ELSE <<>>)
                     ELSE <<>>)
                 \o <<[op |-> "batch", n |-> per_device_batch_size],
                      [op |-> "process_batch"],
                      [op |-> "batch", n |-> device_count]>>
                 \o (IF IsTrain(s) THEN <<[op |-> "repeat"]>> ELSE <<>>)
                 \o <<[op |-> "prefetch"]>>
    IN  ds2

\* builder.as_dataset(split): the raw records of one epoch
RawStream ==
    [i \in 1..NumRecs |->
        [filename |-> "a.wav", label_str |-> "x",
         audio |-> [t \in 1..ClipLen |-> IF i % 2 = 1 THEN R(2) ELSE R(-1)],
         label |-> <<(i - 1) % 2>>, genus |-> <<0>>, family |-> <<0>>,
         order |-> <<0>>, bg_labels |-> <<>>]]

\* the orders in which shuffle may deliver a stream that fits its buffer
ShuffleOrders(n) ==
    {p \in [1..n -> 1..n] : \A i, j \in 1..n : i # j => p[i] # p[j]}

GetDataset ==
    /\ ds = NoTuple
    /\ ds' = get_dataset(split, batch_size, data_config)
    /\ UNCHANGED <<split, batch_size, data_config, pc, recs, notGd>>

\* the next transformation of the chain, once the chain is built
NextOp == IF ds # NoTuple /\ pc < Len(ds) THEN ds[pc + 1].op ELSE None

Advance == /\ pc' = pc + 1
           /\ UNCHANGED <<split, batch_size, data_config, ds, notGd>>

\* .map(multi_hot)
MapMultiHot ==
    /\ NextOp = "multi_hot"
    /\ recs' = [i \in 1..Len(recs) |-> multi_hot(recs[i])]
    /\ Advance

\* .shuffle(batch_size * 10): the buffer is never smaller than NumRecs
Shuffle ==
    /\ NextOp = "shuffle"
    /\ \E p \in ShuffleOrders(Len(recs)) :
        recs' = [i \in 1..Len(recs) |-> recs[p[i]]]
    /\ Advance

\* mix_audio(ds, prob)
MixAudio ==
    /\ NextOp = "mix_audio"
    /\ \E us \in [1..Len(recs) -> Uniforms], first \in 0..1 :
        recs' = mix_audio(recs, us, ds[pc + 1].prob, first)
    /\ Advance

\* .batch(n, drop_remainder=True); a batch is held as the sequence of its
\* elements
BatchStage ==
    /\ NextOp = "batch"
    /\ recs' = Batches(recs, ds[pc + 1].n)
    /\ Advance

\* .map(process_batch): tf.vectorized_map of process_audio over each batch,
\* every example with its own draws
MapProcessBatch ==
    /\ NextOp = "process_batch"
    /\ LET n == batch_size \div device_count
           ws == data_config.window_size_s
       IN  \E draw \in [1..(Len(recs) * n) -> (0..ClipLen) \X GainDraws] :
            /\ \A b \in 1..Len(recs) : \A e \in 1..n :
                draw[(b - 1) * n + e][1]
                    \in StartChoices(Len(recs[b][e].audio), ws * sample_rate)
            /\ recs' = [b \in 1..Len(recs) |-> [e \in 1..n |->
                          process_audio(recs[b][e], ws,
                                        draw[(b - 1) * n + e][1],
                                        draw[(b - 1) * n + e][2])]]
    /\ Advance

\* .repeat() and .prefetch(): the elements of the first epoch pass unchanged
RepeatPrefetch ==
    /\ NextOp \in {"repeat", "prefetch"}
    /\ recs' = recs
    /\ Advance

----------------------------------------------------------------------------
(* Specifications *)

IdleMh == mraw = None /\ mout = None
IdleRed == rwindow = None /\ rout = None
IdleMix == /\ mixin_prob = None /\ inputs = None /\ groups = None
           /\ out = None /\ eof = None
IdlePa == /\ pexample = None /\ window_size = None /\ trim_out = None
          /\ gain_out = None /\ pout = None
IdleFs == /\ feature_dict = None /\ fd_orig = None /\ skey = None /\ svalues = None
          /\ res1 = None /\ res2 = None /\ nres = None
IdleGd == /\ split = None /\ batch_size = None /\ data_config = None
          /\ ds = None /\ pc = None /\ recs = None

InitMultiHot ==
    /\ mraw \in RawExamples /\ mout = NoRec
    /\ IdleRed /\ IdleMix /\ IdlePa /\ IdleFs /\ IdleGd
NextMultiHot == MultiHot
SpecMultiHot == InitMultiHot /\ [][NextMultiHot]_vars

InitReduce ==
    /\ rwindow \in Windows /\ rout = NoRec
    /\ IdleMh /\ IdleMix /\ IdlePa /\ IdleFs /\ IdleGd
NextReduce == MixWindow
SpecReduce == InitReduce /\ [][NextReduce]_vars

InitProcess ==
    /\ pexample \in ProcInputs /\ window_size \in 1..MaxWindow
    /\ trim_out = NoTuple /\ gain_out = NoTuple /\ pout = NoRec
    /\ IdleMh /\ IdleRed /\ IdleMix /\ IdleFs /\ IdleGd
NextProcess == ProcessAudio
SpecProcess == InitProcess /\ [][NextProcess]_vars

----------------------------------------------------------------------------
(* Properties of multi_hot *)

\* the distinct class indices of a sequence
ClassesOf(seq) == {seq[i] : i \in 1..Len(seq)}

\* C5: multi_hot replaces every categorical-sequence field by a vector of
\* length num_classes with entries in {0,1} whose set bits are exactly the
\* distinct classes of the sequence, removes filename and label_str, and
\* sets source_audio to the single row audio.
C5_MultiHotEncodes ==
    mout # NoRec =>
        /\ \A f \in ClassFeatures :
            /\ Len(mout[f]) = num_classes[f]
            /\ \A c \in 1..num_classes[f] :
                /\ mout[f][c] \in {0, 1}
                /\ mout[f][c] = 1 <=> (c - 1) \in ClassesOf(mraw[f])
            /\ Cardinality({c \in 1..num_classes[f] : mout[f][c] # 0})
                 = Cardinality(ClassesOf(mraw[f]))
        /\ "filename" \notin DOMAIN mout
        /\ "label_str" \notin DOMAIN mout
        /\ mout.source_audio = <<mraw.audio>>
        /\ Len(mout.source_audio) = 1

\* a record whose label sequence repeats a class has been encoded
C5_Witness ==
    /\ mout # NoRec
    /\ Len(mraw.label) = 2
    /\ mraw.label[1] = mraw.label[2]
    /\ mraw.bg_labels = <<>>

----------------------------------------------------------------------------
(* Properties of _mix_audio *)

\* the sum of the window's audio at sample t
WindowSum(w, t) ==
    IF Len(w) = 1 THEN w[1].audio[t] ELSE RAdd(w[1].audio[t], w[2].audio[t])

\* C1: each multi-hot field of the output is the elementwise OR of the
\* window's records, audio is their elementwise mean, and for a window of
\* one record source_audio has two rows, the second all zero, and every
\* multi-hot field equals the lone input's.
C1_MixReduces ==
    rout # NoRec =>
        /\ \A f \in ClassFeatures :
            /\ Len(rout[f]) = num_classes[f]
            /\ \A c \in 1..num_classes[f] :
                rout[f][c] =
                    IF \E i \in 1..Len(rwindow) : rwindow[i][f][c] = 1
                    THEN 1 ELSE 0
        /\ Len(rout.audio) = ClipLen
        /\ \A t \in 1..ClipLen :
            RMul(rout.audio[t], R(Len(rwindow))) = WindowSum(rwindow, t)
        /\ Len(rwindow) = 1 =>
            /\ Len(rout.source_audio) = 2
            /\ \A t \in 1..ClipLen : rout.source_audio[2][t] = R(0)
            /\ \A f \in ClassFeatures : rout[f] = rwindow[1][f]

\* two records with different labels and clips have been mixed
C1_Witness ==
    /\ rout # NoRec
    /\ Len(rwindow) = 2
    /\ rwindow[1].label = <<1, 0>>
    /\ rwindow[2].label = <<0, 1>>
    /\ rwindow[1].audio # rwindow[2].audio

\* C2 as stated: source_audio is divided by 2 for every window, so a lone
\* record with audio a yields the rows a/2 and zero.
C2_HalvedAlways ==
    rout # NoRec =>
        /\ Len(rout.source_audio) = 2
        /\ \A i \in 1..Len(rwindow) : \A t \in 1..ClipLen :
            rout.source_audio[i][t] = RDiv(rwindow[i].audio[t], R(2))
        /\ Len(rwindow) = 1 =>
            \A t \in 1..ClipLen : rout.source_audio[2][t] = R(0)

\* C2 amended: source_audio is divided by the number of records in the
\* window: two records yield a1/2 and a2/2, a lone record yields a and zero.
C2_DividedByWindowLen ==
    rout # NoRec =>
        /\ Len(rout.source_audio) = 2
        /\ \A i \in 1..Len(rwindow) : \A t \in 1..ClipLen :
            rout.source_audio[i][t]
                = RDiv(rwindow[i].audio[t], R(Len(rwindow)))
        /\ Len(rwindow) = 1 =>
            /\ rout.source_audio[1] = rwindow[1].audio
            /\ \A t \in 1..ClipLen : rout.source_audio[2][t] = R(0)
        /\ Len(rwindow) = 2 =>
            \A t \in 1..ClipLen :
                RAdd(rout.source_audio[1][t], rout.source_audio[2][t])
                    = rout.audio[t]

\* a window of one record has been reduced
C2_Witness ==
    /\ rout # NoRec
    /\ Len(rwindow) = 1
    /\ rout.source_audio[1] = rwindow[1].audio

----------------------------------------------------------------------------
(* Properties of _trim and process_audio *)

\* C4: _trim returns exactly window_size samples, a start_index in
\* [0, max(L - window_size, 1)) and end_index = start_index + window_size;
\* when L <= window_size the start is 0 and the result is the whole clip
\* zero-padded on the right.
C4_TrimShape ==
    trim_out # NoTuple =>
        LET L == Len(pexample.audio)
            ws == window_size * sample_rate
        IN  /\ Len(trim_out[1]) = ws
            /\ trim_out[2] >= 0
            /\ trim_out[2] < Max(L - ws, 1)
            /\ trim_out[3] = trim_out[2] + ws
            /\ L <= ws =>
                /\ trim_out[2] = 0
                /\ \A k \in 1..ws :
                    trim_out[1][k] =
                        IF k <= L THEN pexample.audio[k] ELSE R(0)
            /\ L > ws =>
                \A k \in 1..ws : trim_out[1][k] = pexample.audio[trim_out[2] + k]

\* a clip shorter than the window has been trimmed
C4_Witness ==
    /\ trim_out # NoTuple
    /\ Len(pexample.audio) = 1
    /\ window_size * sample_rate = 3
    /\ trim_out[1][3] = R(0)

\* C10 as stated: after process_audio every row of source_audio has as many
\* samples as audio, namely window_size, and is the crop of the input row at
\* the same start_index times the same gain scalar.
C10_SourcesAligned ==
    pout # NoRec =>
        \A i \in 1..Len(pout.source_audio) :
            /\ Len(pout.source_audio[i]) = Len(pout.audio)
            /\ Len(pout.audio) = window_size * sample_rate
            /\ \A k \in 1..Len(pout.source_audio[i]) :
                pout.source_audio[i][k]
                    = RMul(pexample.source_audio[i][trim_out[2] + k], gain_out)

----------------------------------------------------------------------------
(* mix_audio over a stream *)

InitMix ==
    /\ mixin_prob \in MixinProbs
    /\ inputs = <<>> /\ out = <<>> /\ eof = FALSE
    /\ groups = NoGroups
    /\ IdleMh /\ IdleRed /\ IdlePa /\ IdleFs /\ IdleGd
NextMix == Pull \/ EndOfInput
SpecMix == InitMix /\ [][NextMix]_vars

\* the number of (output, slot) places input record i went to
Uses(i) ==
    Cardinality({p \in (1..Len(out)) \X (1..GroupWindowSize) :
                    p[2] <= Len(out[p[1]].from) /\ out[p[1]].from[p[2]] = i})

\* positions of the records that drew key 1
Key1 == {i \in 1..Len(inputs) : inputs[i].key = 1}

\* C3 as stated: once the stream is exhausted every input record contributes
\* to exactly one output record.
C3_ExactlyOnce ==
    eof => \A i \in 1..Len(inputs) : Uses(i) = 1

\* C3 amended: every input record contributes to at most one output record;
\* it contributes to exactly one unless it drew key 1 and is the last of an
\* odd number of key-1 records, in which case it is dropped.
C3_OnceOrDroppedRemainder ==
    eof => \A i \in 1..Len(inputs) :
        LET dropped == /\ i \in Key1
                       /\ Cardinality(Key1) % 2 = 1
                       /\ \A j \in Key1 : j <= i
        IN  Uses(i) = IF dropped THEN 0 ELSE 1

\* a stream of three records that all drew key 1 has been exhausted
C3_Witness ==
    /\ eof = TRUE
    /\ Len(inputs) = 3
    /\ Key1 = {1, 2, 3}
    /\ Len(out) = 1

\* C9 as stated: an output built from two records is built from two records
\* adjacent in the input stream that both drew key 1; an output built from
\* one record is built from a record that drew key 0.
C9_AdjacentPairs ==
    \A o \in 1..Len(out) :
        /\ Len(out[o].from) = 2 =>
            /\ out[o].from[2] = out[o].from[1] + 1
            /\ out[o].from[1] \in Key1 /\ out[o].from[2] \in Key1
        /\ Len(out[o].from) = 1 => out[o].from[1] \notin Key1

\* C9 amended: an output built from two records is built from two records
\* that both drew key 1 with no other key-1 record between them in the
\* input stream (records that drew key 0 may lie between them); an output
\* built from one record is built from a record that drew key 0.
C9_ConsecutiveKey1Pairs ==
    \A o \in 1..Len(out) :
        /\ Len(out[o].from) \in {1, 2}
        /\ Len(out[o].from) = 2 =>
            /\ out[o].from[1] < out[o].from[2]
            /\ out[o].from[1] \in Key1 /\ out[o].from[2] \in Key1
            /\ \A j \in Key1 : ~(out[o].from[1] < j /\ j < out[o].from[2])
        /\ Len(out[o].from) = 1 => out[o].from[1] \notin Key1

\* the first and third record were mixed around a second that drew key 0
C9_Witness ==
    /\ \E o \in 1..Len(out) : out[o].from = <<1, 3>>
    /\ inputs[2].key = 0

----------------------------------------------------------------------------
(* not_in and scrub *)

InitScrub ==
    /\ feature_dict \in FeatureDicts /\ fd_orig = feature_dict
    /\ skey \in {"bg_species", "species"}
    /\ svalues \in ValueLists
    /\ res1 = NoRec /\ res2 = NoRec /\ nres = NoRec
    /\ IdleMh /\ IdleRed /\ IdleMix /\ IdlePa /\ IdleGd
NextScrub == NotIn \/ ScrubOnce \/ ScrubAgain
SpecScrub == InitScrub /\ [][NextScrub]_vars

\* all items of a list have the type of its first item
Homogeneous(items) ==
    \A i \in 1..Len(items) : type(items[i]) = type(items[1])

\* C6 as stated: for any list field and any values for which scrub succeeds,
\* scrubbing the result again succeeds and returns an equal record.
C6_Idempotent ==
    (/\ skey \in DOMAIN feature_dict
     /\ type(feature_dict[skey]) = "list"
     /\ res2 # NoRec) => res2 = res1

\* C6 amended: the same, for a list field whose items all have one type.
C6_IdempotentOnHomogeneous ==
    (/\ skey \in DOMAIN feature_dict
     /\ type(feature_dict[skey]) = "list"
     /\ Homogeneous(feature_dict[skey].items)
     /\ res2 # NoRec) => (res2.kind = "return" /\ res2 = res1)

\* [1, 2] has been scrubbed of 1 twice
C6_Witness ==
    /\ skey = "bg_species"
    /\ feature_dict[skey]
         = PyList(<<[ty |-> "int", v |-> "1"], [ty |-> "int", v |-> "2"]>>)
    /\ svalues = <<[ty |-> "int", v |-> "1"]>>
    /\ res2 # NoRec
    /\ res2.value[skey] = PyList(<<[ty |-> "int", v |-> "2"]>>)

\* C7 as stated: when key is absent, not_in and scrub raise KeyError and
\* leave the record unchanged.
C7_MissingKeyIsKeyError ==
    skey \notin DOMAIN fd_orig =>
        /\ nres # NoRec => nres = Raise("KeyError")
        /\ res1 # NoRec => res1 = Raise("KeyError")
        /\ feature_dict = fd_orig

\* C7 amended: when key is absent, not_in and scrub raise ValueError, the
\* kind scrub also raises for a field that is not a list or array, and leave
\* the record unchanged.
C7_MissingKeyIsValueError ==
    /\ skey \notin DOMAIN fd_orig =>
        /\ nres # NoRec => nres = Raise("ValueError")
        /\ res1 # NoRec => res1 = Raise("ValueError")
        /\ feature_dict = fd_orig
    /\ (/\ skey \in DOMAIN fd_orig
        /\ type(fd_orig[skey]) \notin {"list", "ndarray"}
        /\ res1 # NoRec) => res1 = Raise("ValueError")

\* both functions have been called with an absent key
C7_Witness ==
    /\ skey \notin DOMAIN fd_orig
    /\ nres # NoRec
    /\ res1 # NoRec

----------------------------------------------------------------------------
(* get_dataset *)

InitDataset ==
    /\ split \in Splits
    /\ batch_size \in 1..NumRecs
    /\ data_config \in [mixin_prob : MixinProbs, window_size_s : 1..MaxWindow]
    /\ ds = NoTuple /\ pc = 0 /\ recs = RawStream
    /\ IdleMh /\ IdleRed /\ IdleMix /\ IdlePa /\ IdleFs
NextDataset ==
    \/ GetDataset
    \/ MapMultiHot
    \/ Shuffle
    \/ MixAudio
    \/ BatchStage
    \/ MapProcessBatch
    \/ RepeatPrefetch
SpecDataset == InitDataset /\ [][NextDataset]_vars

\* positions in the chain of the transformations named op
Stage(op) == {i \in 1..Len(ds) : ds[i].op = op}

\* C8: in the dataset get_dataset returns, for every split and every
\* mixin_prob, the chain is multi_hot, optional shuffle, mix_audio, batch,
\* process_audio, outer batch, so every record entering process_audio has a
\* source_audio of 2 rows.
C8_MixerAlwaysRuns ==
    ds # NoTuple =>
        /\ Stage("mix_audio") # {}
        /\ \A m \in Stage("mix_audio") :
            /\ \A h \in Stage("multi_hot") \cup Stage("shuffle") : h < m
            /\ \A b \in Stage("batch") \cup Stage("process_batch") : m < b
        /\ NextOp = "process_batch" =>
            \A b \in 1..Len(recs) : \A e \in 1..Len(recs[b]) :
                Len(recs[b][e].source_audio) = 2

====
